---- MODULE Spec2Model ----
(***************************************************************************)
(* Terminal music player: the playback engine thread (player/mod.rs), the  *)
(* controller loop (main.rs, run) and the two mpsc channels between them.  *)
(*                                                                         *)
(* Option<T> is modelled as a sequence of length at most one:              *)
(* None == <<>>, Some(x) == <<x>>.                                         *)
(***************************************************************************)
EXTENDS Integers, Sequences, FiniteSets, TLC

\* ------------------------------------------------------------------ bounds
\* Largest track list scan_directory may return (every length 0..MaxTracks).
MaxTracks == 2
\* Key presses the user makes in one run (any keys).
MaxKeys == 2
\* Key presses of a run in which the user plays, pauses and sets the volume
\* (Enter, Space, + only).
MaxToggleKeys == 3
\* Key presses of a run in which the user only plays and pauses (Enter, Space).
MaxResumeKeys == 4
\* Key presses of a run in which the user only sets the volume (+ and -): from
\* 1.0, twenty-one steps of 0.05 reach either end of the range.
MaxPresses == 21
\* The clock stops advancing here (one unit is one 200 ms sleep of the engine).
MaxTime == 2
\* Events the event channel holds before the engine's next send has to wait.
MaxEvt == 2
\* The widest and the tallest terminal of a run in which the terminal is resized.
MaxWidth == 130
MaxHeight == 24
\* Loop iterations whose waveform sample is followed in a run that watches the
\* waveform; the window is left as it is after them.
MaxTicks == 5

\* Longest todo list of a run of the todo UI, in the file and on screen.
MaxTodos == 3
\* Largest id a todo of the run is given.
MaxTodoId == 4
\* Longest text typed into the input line of the todo UI.
MaxText == 2
\* Reminders added in one history of reminders.json.
MaxAdds == 4

\* ------------------------------------------------------- program constants
\* f32 volume. An f32 is kept as an integer count of 2^-28, the unit in which
\* 0.05f32 (13421773 * 2^-28) and every sum and difference the program forms
\* from it is a whole number: 1.0 is 2^28, 2.0 is 2^29.
VolInit == 268435456
VolMax == 536870912
VolMin == 0
VolStep == 13421773
\* The smallest terminal the layout is specified for.
MinWidth == 20
MinHeight == 10
\* Below this width the layout is compact.
CompactWidth == 80
\* Constraint::Percentage(55)
TrackListPercent == 55
\* wave: vec![0; 80]
WaveLen == 80

None == <<>>
Some(x) == <<x>>
IsSome(o) == Len(o) = 1
Unwrap(o) == o[1]

VARIABLES
    ntracks,    \* App.tracks.len()
    selected,   \* App.selected
    playing,    \* App.playing : Option<usize>
    status,     \* App.status
    position,   \* App.position
    total,      \* App.total : Option<Duration>
    volume,     \* App.volume
    cpc,        \* where the main thread is
    keys,       \* key presses the user has yet to make in this run
    presses,    \* ghost: how many + and how many - presses were handled
    cmdq,       \* command channel (controller -> engine)
    evtq,       \* event channel (engine -> controller)
    epc,        \* where the engine thread is
    sink,       \* engine: Option<Sink>
    evolume,    \* engine: volume
    start_at,   \* engine: Option<Instant>, an Instant being kept as its elapsed()
    paused_acc, \* engine: Duration
    mixer,      \* number of streams the output device is playing
    load,       \* ghost: Option of the latest Play the engine handled
    hist,       \* ghost: events emitted since that Play was taken
    unanswered, \* ghost: track index of every Play sent and not yet handled
    pending,    \* ghost: keysLeft, for every such Play, the keys still to come
                \*        when a key sent it, -1 when the auto-advance did;
                \*        ended, the track of every TrackEnded not yet handled
    screens,    \* the sizes the terminal takes in this run
    term,       \* ghost: Option of the size f.size() gave the latest frame
    compact_mode,  \* App.compact_mode
    cached_layout, \* App.cached_layout : Option<(u16, u16, AppLayout)>
    wave,       \* App.wave
    ticks,      \* loop iterations whose waveform sample is still followed
    todos,      \* todo UI: TodoService.todos
    todo_file,  \* todo UI: the list last written to todo.json
    list_state, \* todo UI: AppState.list_state.selected()
    input_mode, \* todo UI: AppState.input_mode
    input_text, \* todo UI: AppState.input_text
    should_quit,   \* todo UI: AppState.should_quit
    data,       \* reminders: the RemindersData kept in reminders.json
    assigned,   \* ghost: the ids given to new reminders, oldest first
    outcome     \* ghost: the latest reminder command and what it returned

vars == <<ntracks, selected, playing, status, position, total, volume, cpc, keys,
          presses, cmdq, evtq, epc, sink, evolume, start_at, paused_acc, mixer,
          load, hist, unanswered, pending, screens, term, compact_mode, cached_layout,
          wave, ticks, todos, todo_file, list_state, input_mode, input_text,
          should_quit, data, assigned, outcome>>

uiVars == <<screens, term, compact_mode, cached_layout>>
waveVars == <<wave, ticks>>
ctlVars == <<ntracks, selected, playing, status, position, total, volume, cpc, keys,
            presses, uiVars, waveVars>>
engVars == <<epc, sink, evolume, start_at, paused_acc, mixer, load>>
playerVars == <<ctlVars, engVars, cmdq, evtq, hist, unanswered, pending>>
todoVars == <<todos, todo_file, list_state, input_mode, input_text, should_quit>>
reminderVars == <<data, assigned, outcome>>
toolVars == <<todoVars, reminderVars>>

\* ------------------------------------------------------------ common.rs
PlaybackStatus == {"Stopped", "Paused", "Playing"}

\* tracks[i].path: scan_directory gives every track the path of its own file.
PathOf(i) == <<"path", i>>

Play(index, path) == [type |-> "Play", index |-> index, path |-> path]
\* mutant: the command Space sends is a Play of the first track
TogglePlayPause_AsPlay == Play(0, PathOf(0))
TogglePlayPause == [type |-> "TogglePlayPause"]
SetVolume(v) == [type |-> "SetVolume", v |-> v]

TrackStarted(index, duration) ==
    [type |-> "TrackStarted", index |-> index, duration |-> duration]
Progress(p) == [type |-> "Progress", position |-> p]
TrackEnded == [type |-> "TrackEnded"]
Error(message) == [type |-> "Error", message |-> message]

\* What File::open and Decoder::new make of a path when the engine tries it.
FileResults == {"ok", "open_failed", "decode_failed"}
\* source.total_duration(): unknown, or a length.
Durations == {None, Some(240)}

\* ------------------------------------------------------- history (ghost)
\* The events the engine has emitted since it took the latest Play command
\* off the channel, oldest first: the events "of that load" or "of that
\* attempt". A Progress directly after a Progress is not recorded again.
Record(h, e) ==
    IF e.type = "Progress" /\ h # <<>> /\ h[Len(h)].type = "Progress"
    THEN h
    ELSE Append(h, e)

\* ------------------------------------------------------- player/mod.rs
\* The process is running: the engine thread is detached and lives until the
\* main thread returns or panics.
ProcessAlive == cpc \in {"drain", "poll"}

\* std::time::Instant. The engine reads the clock only through elapsed(), so
\* an Instant is kept as the time that has passed since it: Instant::now()
\* is 0, t.elapsed() is t itself, and now - d is d. Sleeping makes every
\* stored Instant one unit older, until the clock stops at MaxTime.
InstantNow == 0
Elapsed(t) == t
Before(t, d) == t + d
Older(o) == IF IsSome(o) /\ Unwrap(o) < MaxTime THEN Some(Unwrap(o) + 1) ELSE o

\* let (_stream, stream_handle) = OutputStream::try_default().unwrap();
\* Without an output device the unwrap panics and the thread ends
\* (epc = "nodevice").
EngineInit ==
    /\ ProcessAlive
    /\ epc = "init"
    /\ \E deviceOk \in BOOLEAN : epc' = IF deviceOk THEN "run" ELSE "nodevice"
    /\ UNCHANGED <<ctlVars, cmdq, evtq, sink, evolume, start_at, paused_acc,
                   mixer, load, hist, unanswered, pending>>
    /\ UNCHANGED toolVars

\* mutant: the file is opened before the old sink is taken, so a failing Play
\* leaves the old stream loaded
SinkAfterTake_Kept(s) == s

\* if let Some(s) = sink.take() { s.stop(); }  -- what is left in `sink`
SinkAfterTake(s) == None
\* mutant: the old sink is dropped from `sink` but never stopped
MixerAfterStop_NoStop(m, s) == m

\* ... and how many streams the device still plays once the taken sink is
\* stopped (a sink that is already empty plays nothing)
MixerAfterStop(m, s) == IF IsSome(s) /\ ~Unwrap(s).empty THEN m - 1 ELSE m

\* The Error event of a Play whose file does not open / does not decode
ErrorEvent(res, path) ==
    IF res = "open_failed"
    THEN Error(<<"cannot open", path>>)
    ELSE Error(<<"unsupported format", path>>)

\* Sink::try_new + set_volume(volume) + append(source). `played` is the time
\* the device has spent playing the stream (it plays while the sink is neither
\* paused nor empty).
\* mutant: s.set_volume(volume) is left out, the new sink keeps rodio's gain 1.0
NewSink_DefaultGain(vol) ==
    [paused |-> FALSE, vol |-> VolInit, empty |-> FALSE, played |-> 0, resumed |-> FALSE]

\* `resumed` (ghost) records that the sink was paused and set playing again.
NewSink(vol) ==
    [paused |-> FALSE, vol |-> vol, empty |-> FALSE, played |-> 0, resumed |-> FALSE]

\* The sink after one sleep of the engine loop.
Played(s) ==
    IF ~s.paused /\ ~s.empty /\ s.played < MaxTime
    THEN [s EXCEPT !.played = @ + 1]
    ELSE s

\* mutant: the engine reports the track after the one it was asked to play
StartedEvent_OffByOne(cmd, duration) == TrackStarted(cmd.index + 1, duration)

\* The event that answers a Play whose file opened and decoded
StartedEvent(cmd, duration) == TrackStarted(cmd.index, duration)

\* mutant: File::open(..).unwrap() in place of the match: a failing file
\* panics the engine thread
EpcAfterPlay_Unwrap(res) == IF res = "ok" THEN "run" ELSE "panicked"

\* Where the engine thread is after a Play: a file that fails is answered
\* with Error and `continue`, the loop goes on.
EpcAfterPlay(res) == "run"

\* mutant: the event overtakes the events that wait
Emit_Overtaking(e, h) ==
    /\ evtq' = <<e>> \o evtq
    /\ hist' = Record(h, e)

\* evt_tx.send(e), with the ghost history h of the load it belongs to.
Emit(e, h) ==
    /\ evtq' = Append(evtq, e)
    /\ hist' = Record(h, e)

\* ghost: what is remembered of the Play the engine has just taken.
\*   sentIndex   the track index of the oldest Play the controller had sent
\*               and that was not yet handled
\*   replaced    a stream was loaded when the command was taken
\*   afterError  an earlier Play of this run was answered with Error
\*   drained     the stream this Play loaded has played to its end
\*   keysLeft    the key presses still to come when a key (Enter, ] or [)
\*               sent the Play; -1 when the auto-advance sent it
\*   before      the track of the Play the engine handled before this one,
\*               -1 when this is the first
LoadOf(cmd, res, duration) ==
    [cmd |-> cmd, res |-> res, duration |-> duration,
     sentIndex |-> Head(unanswered),
     keysLeft |-> Head(pending.keysLeft),
     before |-> IF IsSome(load) THEN Unwrap(load).cmd.index ELSE -1,
     replaced |-> IsSome(sink),
     afterError |-> IsSome(load) /\ (Unwrap(load).afterError \/ Unwrap(load).res # "ok"),
     drained |-> FALSE]

\* AppCommand::Play { index, path }
EnginePlay ==
    /\ ProcessAlive
    /\ epc = "run"
    /\ cmdq # <<>>
    /\ Head(cmdq).type = "Play"
    /\ Len(evtq) < MaxEvt
    /\ \E res \in FileResults, duration \in Durations :
         LET cmd == Head(cmdq) IN
            /\ res # "ok" => duration = None
            /\ cmdq' = Tail(cmdq)
            /\ unanswered' = Tail(unanswered)
            /\ pending' = [pending EXCEPT !.keysLeft = Tail(@)]
            /\ load' = Some(LoadOf(cmd, res, duration))
            /\ epc' = EpcAfterPlay(res)
            /\ IF res = "ok"
               THEN /\ sink' = Some(NewSink(evolume))
                    /\ mixer' = MixerAfterStop(mixer, sink) + 1
                    /\ start_at' = Some(InstantNow)
                    /\ paused_acc' = 0
                    /\ Emit(StartedEvent(cmd, duration), <<>>)
               ELSE /\ sink' = SinkAfterTake(sink)
                    /\ mixer' = MixerAfterStop(mixer, sink)
                    /\ Emit(ErrorEvent(res, cmd.path), <<>>)
                    /\ UNCHANGED <<start_at, paused_acc>>
    /\ UNCHANGED <<ctlVars, evolume>>
    /\ UNCHANGED toolVars

\* mutant: the command only ever pauses
Toggled_PauseOnly(s) == [s EXCEPT !.paused = TRUE]

\* s.play() on a paused sink, s.pause() on a playing one
Toggled(s) == [s EXCEPT !.paused = ~s.paused, !.resumed = @ \/ s.paused]

\* mutant: the pause remembers more than has elapsed
PausedAt_Late(t0) == Elapsed(t0) + 1

\* paused_acc = t0.elapsed()
PausedAt(t0) == Elapsed(t0)

\* start_at = Some(Instant::now() - (t0.elapsed() - paused_acc))
ResumedStart(t0, acc) == Before(InstantNow, Elapsed(t0) - acc)

\* AppCommand::TogglePlayPause. Duration - Duration panics on underflow, and
\* the panic ends the engine thread (epc = "panicked").
EngineToggle ==
    /\ ProcessAlive
    /\ epc = "run"
    /\ cmdq # <<>>
    /\ Head(cmdq).type = "TogglePlayPause"
    /\ cmdq' = Tail(cmdq)
    /\ IF IsSome(sink)
       THEN LET s == Unwrap(sink) IN
            IF s.paused
            THEN \* s.play(); start_at = Instant::now() - (t0.elapsed() - paused_acc)
                 IF IsSome(start_at) /\ Elapsed(Unwrap(start_at)) < paused_acc
                 THEN /\ epc' = "panicked"
                      /\ sink' = Some(Toggled(s))
                      /\ UNCHANGED <<start_at, paused_acc>>
                 ELSE /\ sink' = Some(Toggled(s))
                      /\ start_at' = IF IsSome(start_at)
                                     THEN Some(ResumedStart(Unwrap(start_at), paused_acc))
                                     ELSE start_at
                      /\ UNCHANGED <<epc, paused_acc>>
            ELSE \* s.pause(); paused_acc = t0.elapsed()
                 /\ sink' = Some(Toggled(s))
                 /\ paused_acc' = IF IsSome(start_at) THEN PausedAt(Unwrap(start_at))
                                                      ELSE paused_acc
                 /\ UNCHANGED <<epc, start_at>>
       ELSE UNCHANGED <<epc, sink, start_at, paused_acc>>
    /\ UNCHANGED <<ctlVars, evtq, evolume, mixer, load, hist, unanswered, pending>>
    /\ UNCHANGED toolVars

\* AppCommand::SetVolume(v)
EngineSetVolume ==
    /\ ProcessAlive
    /\ epc = "run"
    /\ cmdq # <<>>
    /\ Head(cmdq).type = "SetVolume"
    /\ cmdq' = Tail(cmdq)
    /\ evolume' = Head(cmdq).v
    /\ sink' = IF IsSome(sink)
               THEN Some([Unwrap(sink) EXCEPT !.vol = Head(cmdq).v])
               ELSE sink
    /\ UNCHANGED <<ctlVars, evtq, epc, start_at, paused_acc, mixer,
                   load, hist, unanswered, pending>>
    /\ UNCHANGED toolVars

\* The loaded stream plays its last sample (the device's thread): an unpaused
\* sink becomes empty and the device stops playing it.
StreamDrain ==
    /\ ProcessAlive
    /\ epc = "run"
    /\ IsSome(sink)
    /\ ~Unwrap(sink).paused
    /\ ~Unwrap(sink).empty
    /\ sink' = Some([Unwrap(sink) EXCEPT !.empty = TRUE])
    /\ mixer' = mixer - 1
    /\ load' = Some([Unwrap(load) EXCEPT !.drained = TRUE])
    /\ UNCHANGED <<ctlVars, cmdq, evtq, epc, evolume, start_at, paused_acc,
                   hist, unanswered, pending>>
    /\ UNCHANGED toolVars

\* mutant: the periodic check forgets sink = None
SinkAfterEnd_Kept(s) == s

\* What the periodic check leaves in `sink` after it saw s.empty()
SinkAfterEnd(s) == None

\* mutant: the loop takes at most one command before it goes on to the check
CmdDrained_OneOnly(q) == TRUE

\* while let Ok(cmd) = cmd_rx.try_recv(): the loop over the commands ends
\* when try_recv finds the command channel empty.
CmdDrained(q) == q = <<>>

\* One turn of the engine loop once try_recv finds the command channel empty:
\* the periodic check, then thread::sleep(200 ms).
EngineCheck ==
    /\ ProcessAlive
    /\ epc = "run"
    /\ CmdDrained(cmdq)
    /\ IF IsSome(sink)
       THEN LET s == Unwrap(sink) IN
            /\ Len(evtq) < MaxEvt
            /\ IF s.empty
               THEN /\ Emit(TrackEnded, hist)
                    /\ pending' = [pending EXCEPT
                                     !.ended = Append(@, Unwrap(load).cmd.index)]
                    /\ sink' = SinkAfterEnd(sink)
                    /\ start_at' = None
                    /\ paused_acc' = 0
               ELSE IF IsSome(start_at)
               THEN LET p == Elapsed(Unwrap(start_at)) IN
                    /\ Emit(Progress(p), hist)
                    /\ start_at' = Older(start_at)
                    /\ sink' = Some(Played(s))
                    /\ UNCHANGED <<paused_acc, pending>>
               ELSE /\ sink' = Some(Played(s))
                    /\ UNCHANGED <<evtq, hist, start_at, paused_acc, pending>>
       ELSE /\ start_at' = Older(start_at)
            /\ UNCHANGED <<evtq, hist, sink, paused_acc, pending>>
    /\ UNCHANGED <<ctlVars, cmdq, epc, evolume, mixer, load, unanswered>>
    /\ UNCHANGED toolVars

\* ----------------------------------------------------------- ui/layout.rs
\* ratatui's Rect
Rect(x, y, w, h) == [x |-> x, y |-> y, width |-> w, height |-> h]

\* mutant: the small heights are used on every terminal
NowPlayingHeight_AlwaysSmall(h) == 3

\* let now_playing_height = if size.height < 20 { 3 } else { 5 };
NowPlayingHeight(h) == IF h < 20 THEN 3 ELSE 5

\* let playback_control_height = if size.height < 20 { 4 } else { 5 };
PlaybackControlHeight(h) == IF h < 20 THEN 4 ELSE 5

\* let status_bar_height = 1;
StatusBarHeight == 1

\* Constraint::Min(5)
MiddleMin == 5

\* self.terminal_size.width < 80
IsCompactMode(w) == w < CompactWidth

\* The ways of taking d rows from bands of a, b and s rows.
Cuts(d, a, b, s) ==
    {c \in (0..a) \X (0..b) \X (0..s) : c[1] + c[2] + c[3] = d}

\* mutant: no chunk is shortened when the four do not fit
SplitVertical_NoFit(h, a, m, b, s) ==
    {<<a, IF h - a - b - s > m THEN h - a - b - s ELSE m, b, s>>}

\* Layout::default().direction(Vertical).constraints([Length(a), Min(m),
\* Length(b), Length(s)]).split(size), as the heights of the four chunks (the
\* chunks follow one another from the top of the area). When the four fit in
\* h rows, the Length chunks have their lengths and the Min chunk is grown
\* over all the rows that are left. When they do not fit, the Min chunk keeps
\* its minimum, which the solver weighs above a Length, the chunks fill the
\* area exactly, and the missing rows are taken from the Length chunks:
\* from which of them is the solver's choice among constraints of one
\* weight, so every way of taking them is an outcome.
SplitVertical(h, a, m, b, s) ==
    IF a + m + b + s <= h
    THEN {<<a, h - a - b - s, b, s>>}
    ELSE {<<a - c[1], m, b - c[2], s - c[3]>> : c \in Cuts(a + m + b + s - h, a, b, s)}

\* mutant: the two panels are given the same width
SplitHorizontal_Halves(w) == {<<w \div 2, w - (w \div 2)>>}

\* Layout::default().direction(Horizontal).constraints([Percentage(55),
\* Percentage(45)]).split(middle_area), as the widths of the two chunks: the
\* border between them is at 55 % of the width, rounded to a whole column (to
\* either side when 55 % of the width ends in a half).
SplitHorizontal(w) ==
    LET n == TrackListPercent * w
        left == IF n % 100 = 50 THEN {n \div 100, n \div 100 + 1}
                ELSE {(n + 50) \div 100}
    IN {<<l, w - l>> : l \in left}

\* LayoutManager::calculate_layout, as the set of the layouts it can return
\* for a terminal of w columns and h rows.
CalculateLayout(w, h) ==
    LET rows == SplitVertical(h, NowPlayingHeight(h), MiddleMin,
                              PlaybackControlHeight(h), StatusBarHeight)
        cols == IF IsCompactMode(w) THEN {<<w, 0>>} ELSE SplitHorizontal(w)
    IN {[now_playing |-> Rect(0, 0, w, r[1]),
         track_list |-> Rect(0, r[1], c[1], r[2]),
         visualization |-> IF IsCompactMode(w) THEN None
                           ELSE Some(Rect(c[1], r[1], c[2], r[2])),
         playback_control |-> Rect(0, r[1] + r[2], w, r[3]),
         status_bar |-> Rect(0, r[1] + r[2] + r[3], w, r[4])] :
        r \in rows, c \in cols}

\* ------------------------------------------------------------- main.rs
\* player::start: spawns the engine thread and returns Ok(handle).
StartResult == "Ok"

\* run, up to App::new: start the player, then set up the terminal.
CtlStart ==
    /\ cpc = "start"
    /\ epc' = "init"
    /\ \E terminalOk \in BOOLEAN :
         cpc' = IF StartResult = "Ok" /\ terminalOk THEN "drain" ELSE "aborted"
    /\ UNCHANGED <<uiVars, waveVars, ntracks, selected, playing, status, position, total, volume, presses,
                   keys, cmdq, evtq, sink, evolume, start_at, paused_acc, mixer,
                   load, hist, unanswered, pending>>
    /\ UNCHANGED toolVars

\* mutant: the track shown as playing is the selected one
StartedMirror_FromSelected(evt) ==
    [playing |-> Some(selected), status |-> "Playing", position |-> 0,
     total |-> evt.duration]

\* app.playing = Some(index); app.status = PlaybackStatus::Playing;
\* app.position = Duration::from_secs(0); app.total = duration;
StartedMirror(evt) ==
    [playing |-> Some(evt.index), status |-> "Playing", position |-> 0,
     total |-> evt.duration]

\* AppEvent::TrackStarted { index, duration }
CtlTrackStarted ==
    /\ cpc = "drain"
    /\ evtq # <<>>
    /\ Head(evtq).type = "TrackStarted"
    /\ evtq' = Tail(evtq)
    /\ playing' = StartedMirror(Head(evtq)).playing
    /\ status' = StartedMirror(Head(evtq)).status
    /\ position' = StartedMirror(Head(evtq)).position
    /\ total' = StartedMirror(Head(evtq)).total
    /\ UNCHANGED <<uiVars, waveVars, ntracks, selected, volume, presses, cpc, keys, cmdq, engVars,
                   hist, unanswered, pending>>
    /\ UNCHANGED toolVars

\* AppEvent::Progress { position }
CtlProgress ==
    /\ cpc = "drain"
    /\ evtq # <<>>
    /\ Head(evtq).type = "Progress"
    /\ evtq' = Tail(evtq)
    /\ position' = Head(evtq).position
    /\ UNCHANGED <<uiVars, waveVars, ntracks, selected, playing, status, total, volume, presses, cpc, keys,
                   cmdq, engVars, hist, unanswered, pending>>
    /\ UNCHANGED toolVars

\* mutant: auto-advance stays on the track that ended
NextTrack_Stay(i, n) == i

\* let next = if i + 1 < app.tracks.len() { i + 1 } else { i };
NextTrack(i, n) == IF i + 1 < n THEN i + 1 ELSE i

\* AppEvent::TrackEnded: auto-advance. app.tracks[next] panics out of bounds.
CtlTrackEnded ==
    /\ cpc = "drain"
    /\ evtq # <<>>
    /\ Head(evtq).type = "TrackEnded"
    /\ evtq' = Tail(evtq)
    /\ IF IsSome(playing)
       THEN LET next == NextTrack(Unwrap(playing), ntracks) IN
            /\ selected' = next
            /\ IF next < ntracks
               THEN /\ cmdq' = Append(cmdq, Play(next, PathOf(next)))
                    /\ unanswered' = Append(unanswered, next)
                    /\ pending' = [keysLeft |-> Append(pending.keysLeft, -1),
                                   ended |-> Tail(pending.ended)]
                    /\ cpc' = cpc
               ELSE /\ cpc' = "panicked"
                    /\ pending' = [pending EXCEPT !.ended = Tail(@)]
                    /\ UNCHANGED <<cmdq, unanswered>>
       ELSE /\ pending' = [pending EXCEPT !.ended = Tail(@)]
            /\ UNCHANGED <<selected, cmdq, unanswered, cpc>>
    /\ UNCHANGED <<uiVars, waveVars, ntracks, playing, status, position, total, volume, presses, keys,
                   engVars, hist>>
    /\ UNCHANGED toolVars

\* mutant: an Error leaves the status as it was
ErrorStatus_Kept(st) == st

\* app.status = PlaybackStatus::Stopped, whatever the status was
ErrorStatus(st) == "Stopped"

\* AppEvent::Error { message }
CtlError ==
    /\ cpc = "drain"
    /\ evtq # <<>>
    /\ Head(evtq).type = "Error"
    /\ evtq' = Tail(evtq)
    /\ status' = ErrorStatus(status)
    /\ UNCHANGED <<uiVars, waveVars, ntracks, selected, playing, position, total, volume, presses, cpc, keys,
                   cmdq, engVars, hist, unanswered, pending>>
    /\ UNCHANGED toolVars

\* mutant: only the width is compared with the cached size
NeedsRecalc_WidthOnly(cached, w, h) ==
    IF IsSome(cached) THEN Unwrap(cached)[1] # w ELSE TRUE

\* let needs_recalc = match &self.cached_layout {
\*     Some((cw, ch, _)) => *cw != width || *ch != height, None => true };
NeedsRecalc(cached, w, h) ==
    IF IsSome(cached) THEN Unwrap(cached)[1] # w \/ Unwrap(cached)[2] # h ELSE TRUE

\* App::get_layout(width, height)
GetLayout(w, h) ==
    IF NeedsRecalc(cached_layout, w, h)
    THEN \E layout \in CalculateLayout(w, h) :
             cached_layout' = Some(<<w, h, layout>>)
    ELSE UNCHANGED cached_layout

\* terminal.draw: let size = f.size(); app.compact_mode = size.width < 80;
\* let layout = app.get_layout(size.width, size.height).clone();
Frame ==
    \E size \in screens :
        /\ term' = Some(size)
        /\ compact_mode' = (size[1] < CompactWidth)
        /\ GetLayout(size[1], size[2])
        /\ UNCHANGED screens

\* mutant: recv() in place of try_recv(): on an empty channel it does not return
TryRecvFails_Blocking(q) == FALSE

\* while let Ok(evt) = app.evt_rx.try_recv(): the loop ends as soon as
\* try_recv finds nothing in the channel.
TryRecvFails(q) == q = <<>>

\* try_recv finds the event channel empty: draw the frame, then poll for a key.
CtlDraw ==
    /\ cpc = "drain"
    /\ TryRecvFails(evtq)
    /\ cpc' = "poll"
    /\ Frame
    /\ UNCHANGED <<waveVars, ntracks, selected, playing, status, position, total, volume, presses,
                   keys, cmdq, evtq, engVars, hist, unanswered, pending>>
    /\ UNCHANGED toolVars

\* f32 arithmetic. The spacing of the f32 values around n >= 0 (24 significant
\* bits), in the unit 2^-28; every n the program forms is below 2^30.
Quantum(n) ==
    IF n < 16777216 THEN 1
    ELSE IF n < 33554432 THEN 2
    ELSE IF n < 67108864 THEN 4
    ELSE IF n < 134217728 THEN 8
    ELSE IF n < 268435456 THEN 16
    ELSE IF n < 536870912 THEN 32
    ELSE 64

\* The f32 nearest to n >= 0, ties to the even mantissa.
RoundF32(n) ==
    LET q == Quantum(n)
        lo == (n \div q) * q
        r == n - lo
    IN IF 2 * r < q THEN lo
       ELSE IF 2 * r > q THEN lo + q
       ELSE IF (lo \div q) % 2 = 0 THEN lo ELSE lo + q

\* a + b and a - b in f32 (a, b >= 0)
F32Add(a, b) == RoundF32(a + b)
F32Sub(a, b) == IF a >= b THEN RoundF32(a - b) ELSE 0 - RoundF32(b - a)

\* f32::min, f32::max
F32Min(a, b) == IF a < b THEN a ELSE b
F32Max(a, b) == IF a > b THEN a ELSE b

\* The values (t * 6.0).sin() * 0.5 + 0.5 is given, in hundredths: the sine at
\* its lowest, at zero and at its highest.
Phases == {0, 50, 100}

\* mutant: the sample is computed whatever the status is
Sample_AnyStatus(st, vol, phase) ==
    LET m == F32Min(vol, VolInit)
    IN (phase * (m \div 16384) + (phase * (m % 16384)) \div 16384) \div 16384

\* let sample = if app.status == Playing { let v = (..) * 100.0 *
\* app.volume.min(1.0) as f64; v.clamp(0.0, 100.0) as u64 } else { 0 };
\* The product phase * m / 2^28 is formed in two halves of m to stay within
\* 32 bits; `as u64` drops the fraction.
Sample(st, vol, phase) ==
    IF st = "Playing"
    THEN LET m == F32Min(vol, VolInit)
             v == (phase * (m \div 16384) + (phase * (m % 16384)) \div 16384) \div 16384
         IN IF v < 0 THEN 0 ELSE IF v > 100 THEN 100 ELSE v
    ELSE 0

\* if !app.wave.is_empty() { app.wave.remove(0); } app.wave.push(sample);
Pushed(w, x) == Append(IF w # <<>> THEN Tail(w) ELSE w, x)

\* The end of a loop iteration: the waveform window moves on by one sample,
\* computed from the state the iteration leaves.
WaveTick ==
    IF ticks = 0
    THEN UNCHANGED waveVars
    ELSE /\ ticks' = ticks - 1
         /\ \E phase \in Phases :
              wave' = Pushed(wave, Sample(status', volume', phase))

\* event::poll(timeout) returns false: no key in this tick.
CtlTimeout ==
    /\ cpc = "poll"
    /\ cpc' = "drain"
    /\ UNCHANGED <<uiVars, ntracks, selected, playing, status, position, total, volume, presses,
                   keys, cmdq, evtq, engVars, hist, unanswered, pending>>
    /\ WaveTick
    /\ UNCHANGED toolVars

\* event::poll returns true and event::read gives a key press.
KeyRead ==
    /\ cpc = "poll"
    /\ keys > 0
    /\ keys' = keys - 1

\* KeyCode::Char('q') => break
KeyQuit ==
    /\ KeyRead
    /\ cpc' = "quit"
    /\ UNCHANGED <<uiVars, waveVars, ntracks, selected, playing, status, position, total, volume, presses,
                   cmdq, evtq, engVars, hist, unanswered, pending>>
    /\ UNCHANGED toolVars

\* mutant: Down moves without looking at the length of the list
SelectDown_NoClamp(sel, n) == sel + 1

\* if app.selected + 1 < app.tracks.len() { app.selected += 1; }
SelectDown(sel, n) == IF sel + 1 < n THEN sel + 1 ELSE sel

\* KeyCode::Down | KeyCode::Char('j')
KeyDown ==
    /\ KeyRead
    /\ selected' = SelectDown(selected, ntracks)
    /\ cpc' = "drain"
    /\ UNCHANGED <<uiVars, ntracks, playing, status, position, total, volume, presses,
                   cmdq, evtq, engVars, hist, unanswered, pending>>
    /\ WaveTick
    /\ UNCHANGED toolVars

\* mutant: Up moves without looking at the top of the list
SelectUp_NoClamp(sel) == sel - 1

\* if app.selected > 0 { app.selected -= 1; }
SelectUp(sel) == IF sel > 0 THEN sel - 1 ELSE sel

\* KeyCode::Up | KeyCode::Char('k')
KeyUp ==
    /\ KeyRead
    /\ selected' = SelectUp(selected)
    /\ cpc' = "drain"
    /\ UNCHANGED <<uiVars, ntracks, playing, status, position, total, volume, presses,
                   cmdq, evtq, engVars, hist, unanswered, pending>>
    /\ WaveTick
    /\ UNCHANGED toolVars

\* let t = app.tracks[i].clone(); cmd_tx.send(Play { index: i, path: t.path })
\* The index panics when i is out of bounds.
SendPlay(i) ==
    IF i < ntracks
    THEN /\ cmdq' = Append(cmdq, Play(i, PathOf(i)))
         /\ unanswered' = Append(unanswered, i)
         /\ pending' = [pending EXCEPT !.keysLeft = Append(@, keys')]
         /\ cpc' = "drain"
    ELSE /\ cpc' = "panicked"
         /\ UNCHANGED <<cmdq, unanswered, pending>>

\* KeyCode::Enter
KeyEnter ==
    /\ KeyRead
    /\ SendPlay(selected)
    /\ UNCHANGED <<uiVars, ntracks, selected, playing, status, position, total, volume, presses,
                   evtq, engVars, hist>>
    /\ IF cpc' = "panicked" THEN UNCHANGED waveVars ELSE WaveTick
    /\ UNCHANGED toolVars

\* mutant: Space also flips the mirrored status between Playing and Paused
SpaceStatus_Mirrored(st) ==
    IF st = "Playing" THEN "Paused" ELSE IF st = "Paused" THEN "Playing" ELSE st

\* The Space arm sends the command and assigns nothing: app.status is what
\* it was.
SpaceStatus(st) == st

\* KeyCode::Char(' ')
KeySpace ==
    /\ KeyRead
    /\ cmdq' = Append(cmdq, TogglePlayPause)
    /\ cpc' = "drain"
    /\ status' = SpaceStatus(status)
    /\ UNCHANGED <<uiVars, ntracks, selected, playing, position, total, volume, presses,
                   evtq, engVars, hist, unanswered, pending>>
    /\ WaveTick
    /\ UNCHANGED toolVars

\* mutant: ] plays the selected track and never moves on
ClampNext_Stay(sel, n) == sel

\* let next = if app.selected + 1 < app.tracks.len() { app.selected + 1 }
\*            else { app.selected };
ClampNext(sel, n) == IF sel + 1 < n THEN sel + 1 ELSE sel

\* let prev = if app.selected > 0 { app.selected - 1 } else { 0 };
ClampPrev(sel) == IF sel > 0 THEN sel - 1 ELSE 0

\* KeyCode::Char(']')
KeyNext ==
    /\ KeyRead
    /\ LET next == ClampNext(selected, ntracks) IN
         /\ selected' = next
         /\ SendPlay(next)
    /\ UNCHANGED <<uiVars, ntracks, playing, status, position, total, volume, presses,
                   evtq, engVars, hist>>
    /\ IF cpc' = "panicked" THEN UNCHANGED waveVars ELSE WaveTick
    /\ UNCHANGED toolVars

\* KeyCode::Char('[')
KeyPrev ==
    /\ KeyRead
    /\ LET prev == ClampPrev(selected) IN
         /\ selected' = prev
         /\ SendPlay(prev)
    /\ UNCHANGED <<uiVars, ntracks, playing, status, position, total, volume, presses,
                   evtq, engVars, hist>>
    /\ IF cpc' = "panicked" THEN UNCHANGED waveVars ELSE WaveTick
    /\ UNCHANGED toolVars

\* mutant: + without the ceiling
VolumeUp_NoCeiling(v) == F32Add(v, VolStep)

\* (app.volume + 0.05).min(2.0)
VolumeUp(v) == F32Min(F32Add(v, VolStep), VolMax)
\* mutant: - takes two steps at a time
VolumeDown_TwoSteps(v) == F32Max(F32Sub(v, 2 * VolStep), VolMin)

\* (app.volume - 0.05).max(0.0)
VolumeDown(v) == F32Max(F32Sub(v, VolStep), VolMin)

\* KeyCode::Char('+')
KeyPlus ==
    /\ KeyRead
    /\ volume' = VolumeUp(volume)
    /\ cmdq' = Append(cmdq, SetVolume(volume'))
    /\ presses' = [presses EXCEPT !.plus = @ + 1]
    /\ cpc' = "drain"
    /\ UNCHANGED <<uiVars, ntracks, selected, playing, status, position, total,
                   evtq, engVars, hist, unanswered, pending>>
    /\ WaveTick
    /\ UNCHANGED toolVars

\* KeyCode::Char('-')
KeyMinus ==
    /\ KeyRead
    /\ volume' = VolumeDown(volume)
    /\ cmdq' = Append(cmdq, SetVolume(volume'))
    /\ presses' = [presses EXCEPT !.minus = @ + 1]
    /\ cpc' = "drain"
    /\ UNCHANGED <<uiVars, ntracks, selected, playing, status, position, total,
                   evtq, engVars, hist, unanswered, pending>>
    /\ WaveTick
    /\ UNCHANGED toolVars

\* _ => {}
KeyOther ==
    /\ KeyRead
    /\ cpc' = "drain"
    /\ UNCHANGED <<uiVars, ntracks, selected, playing, status, position, total, volume, presses,
                   cmdq, evtq, engVars, hist, unanswered, pending>>
    /\ WaveTick
    /\ UNCHANGED toolVars

\* ------------------------------------------------- ui/state.rs (todo UI)
\* TodoItem::new(id, text, name): completed is false. The text, the name and
\* created_at of an item are not followed.
TodoItem(id) == [id |-> id, completed |-> FALSE]

\* The characters of a typed text: a blank or another character.
Chars == {" ", "a"}

\* str::trim
RECURSIVE TrimStart(_)
TrimStart(t) == IF t # <<>> /\ Head(t) = " " THEN TrimStart(Tail(t)) ELSE t

RECURSIVE TrimEnd(_)
TrimEnd(t) ==
    IF t # <<>> /\ t[Len(t)] = " " THEN TrimEnd(SubSeq(t, 1, Len(t) - 1)) ELSE t

Trim(t) == TrimEnd(TrimStart(t))

\* usize::saturating_sub
SaturatingSub(a, b) == IF a >= b THEN a - b ELSE 0

\* self.todos.iter().map(|t| t.id).max().unwrap_or(0) + 1
NextTodoId(ts) ==
    LET ids == {ts[j].id : j \in 1..Len(ts)} IN
    (IF ids = {} THEN 0 ELSE CHOOSE m \in ids : \A i \in ids : i <= m) + 1

\* self.todos.retain(|todo| todo.id != id)
Retain(ts, id) == SelectSeq(ts, LAMBDA t : t.id # id)

\* The lists todo.json may hold when the UI starts: none, or the todos an
\* earlier run has added.
TodoFiles == {[j \in 1..k |-> TodoItem(j)] : k \in 0..MaxTodos}

\* AppState::new, TodoService::new having read the list file from todo.json
InitTodo(file) ==
    /\ todo_file = file
    /\ todos = file
    /\ list_state = IF file # <<>> THEN Some(0) ELSE None
    /\ input_mode = "Normal"
    /\ input_text = <<>>
    /\ should_quit = FALSE

\* App::run: a key is read while the loop has not been left
TodoKey(mode) ==
    /\ ~should_quit
    /\ input_mode = mode

\* KeyCode::Char('q') | KeyCode::Esc
TodoQuit ==
    /\ TodoKey("Normal")
    /\ should_quit' = TRUE
    /\ UNCHANGED <<todos, todo_file, list_state, input_mode, input_text>>
    /\ UNCHANGED <<playerVars, reminderVars>>

\* Navigation::move_next
MoveNext ==
    /\ TodoKey("Normal")
    /\ LET i == IF IsSome(list_state)
                THEN IF Unwrap(list_state) >= SaturatingSub(Len(todos), 1)
                     THEN 0
                     ELSE Unwrap(list_state) + 1
                ELSE 0
       IN list_state' = Some(i)
    /\ UNCHANGED <<todos, todo_file, input_mode, input_text, should_quit>>
    /\ UNCHANGED <<playerVars, reminderVars>>

\* Navigation::move_previous
MovePrevious ==
    /\ TodoKey("Normal")
    /\ LET i == IF IsSome(list_state)
                THEN IF Unwrap(list_state) = 0
                     THEN SaturatingSub(Len(todos), 1)
                     ELSE Unwrap(list_state) - 1
                ELSE 0
       IN list_state' = Some(i)
    /\ UNCHANGED <<todos, todo_file, input_mode, input_text, should_quit>>
    /\ UNCHANGED <<playerVars, reminderVars>>

\* AppState::toggle_current_todo, save_to_file included
ToggleCurrentTodo ==
    /\ TodoKey("Normal")
    /\ IF IsSome(list_state) /\ Unwrap(list_state) < Len(todos)
       THEN /\ todos' = [todos EXCEPT ![Unwrap(list_state) + 1].completed = ~@]
            /\ todo_file' = todos'
       ELSE UNCHANGED <<todos, todo_file>>
    /\ UNCHANGED <<list_state, input_mode, input_text, should_quit>>
    /\ UNCHANGED <<playerVars, reminderVars>>

\* AppState::start_adding_todo
StartAddingTodo ==
    /\ TodoKey("Normal")
    /\ input_mode' = "Adding"
    /\ input_text' = <<>>
    /\ UNCHANGED <<todos, todo_file, list_state, should_quit>>
    /\ UNCHANGED <<playerVars, reminderVars>>

\* AppState::delete_current_todo, delete_todo and its save_to_file included
DeleteCurrentTodo ==
    /\ TodoKey("Normal")
    /\ IF IsSome(list_state) /\ Unwrap(list_state) < Len(todos)
       THEN LET current_index == Unwrap(list_state)
                todo_id == todos[current_index + 1].id
                left == Retain(todos, todo_id)
            IN /\ todos' = left
               /\ todo_file' = left
               /\ list_state' =
                     IF left # <<>>
                     THEN IF current_index >= Len(left)
                          THEN Some(SaturatingSub(Len(left), 1))
                          ELSE Some(current_index)
                     ELSE None
       ELSE UNCHANGED <<todos, todo_file, list_state>>
    /\ UNCHANGED <<input_mode, input_text, should_quit>>
    /\ UNCHANGED <<playerVars, reminderVars>>

\* KeyCode::Char(c) while adding: state.input_text.push(c)
PushChar ==
    /\ TodoKey("Adding")
    /\ Len(input_text) < MaxText
    /\ \E c \in Chars : input_text' = Append(input_text, c)
    /\ UNCHANGED <<todos, todo_file, list_state, input_mode, should_quit>>
    /\ UNCHANGED <<playerVars, reminderVars>>

\* KeyCode::Backspace while adding: state.input_text.pop()
PopChar ==
    /\ TodoKey("Adding")
    /\ input_text # <<>>
    /\ input_text' = SubSeq(input_text, 1, Len(input_text) - 1)
    /\ UNCHANGED <<todos, todo_file, list_state, input_mode, should_quit>>
    /\ UNCHANGED <<playerVars, reminderVars>>

\* AppState::cancel_adding_todo
CancelAddingTodo ==
    /\ TodoKey("Adding")
    /\ input_mode' = "Normal"
    /\ input_text' = <<>>
    /\ UNCHANGED <<todos, todo_file, list_state, should_quit>>
    /\ UNCHANGED <<playerVars, reminderVars>>

\* AppState::add_todo, TodoService::add_todo and its save_to_file included
AddTodo ==
    /\ TodoKey("Adding")
    /\ Len(todos) < MaxTodos
    /\ NextTodoId(todos) <= MaxTodoId
    /\ IF Trim(input_text) # <<>>
       THEN LET added == Append(todos, TodoItem(NextTodoId(todos))) IN
            /\ todos' = added
            /\ todo_file' = added
            /\ list_state' = IF added # <<>> THEN Some(Len(added) - 1)
                                             ELSE list_state
       ELSE UNCHANGED <<todos, todo_file, list_state>>
    /\ input_mode' = "Normal"
    /\ input_text' = <<>>
    /\ UNCHANGED should_quit
    /\ UNCHANGED <<playerVars, reminderVars>>

\* ------------------------------------------------------------ reminder.rs
\* RemindersData::default(): what load_reminders gives when there is no file
DefaultData == [reminders |-> <<>>, next_id |-> 0]

\* The Reminder that Add builds; of its fields the id and completed are
\* followed.
Reminder(id) == [id |-> id, completed |-> FALSE]

\* mutant: Add leaves next_id as it was
NextIdAfterAdd_Same(n) == n

\* data.next_id += 1
NextIdAfterAdd(n) == n + 1

\* data.reminders.iter().position(|r| r.id == id)
Position(rs, id) ==
    LET hits == {j \in 1..Len(rs) : rs[j].id = id} IN
    IF hits = {} THEN None
    ELSE Some(CHOOSE j \in hits : \A k \in hits : j <= k)

\* Vec::remove(pos)
RemoveAt(rs, pos) == SubSeq(rs, 1, pos - 1) \o SubSeq(rs, pos + 1, Len(rs))

\* The ids a Complete or Remove command may name.
ReminderIds == 0..MaxAdds

InitReminders ==
    /\ data = DefaultData
    /\ assigned = <<>>
    /\ outcome = [action |-> "none", id |-> 0, result |-> "Ok"]

\* ReminderAction::Add. The due date, the priority or the cron expression
\* may fail to parse: the command then returns the error before it builds the
\* reminder.
ReminderAdd ==
    /\ data.next_id < MaxAdds
    /\ \E parsed \in BOOLEAN :
         IF parsed
         THEN /\ data' = [reminders |-> Append(data.reminders, Reminder(data.next_id)),
                          next_id |-> NextIdAfterAdd(data.next_id)]
              /\ assigned' = Append(assigned, data.next_id)
              /\ outcome' = [action |-> "Add", id |-> data.next_id, result |-> "Ok"]
         ELSE /\ outcome' = [action |-> "Add", id |-> data.next_id, result |-> "Err"]
              /\ UNCHANGED <<data, assigned>>
    /\ UNCHANGED <<playerVars, todoVars>>

\* ReminderAction::Complete { id }
ReminderComplete ==
    /\ \E id \in ReminderIds :
         LET pos == Position(data.reminders, id) IN
         IF IsSome(pos)
         THEN /\ data' = [data EXCEPT !.reminders[Unwrap(pos)].completed = TRUE]
              /\ outcome' = [action |-> "Complete", id |-> id, result |-> "Ok"]
         ELSE /\ outcome' = [action |-> "Complete", id |-> id, result |-> "Err"]
              /\ UNCHANGED data
    /\ UNCHANGED assigned
    /\ UNCHANGED <<playerVars, todoVars>>

\* ReminderAction::Remove { id }
ReminderRemove ==
    /\ \E id \in ReminderIds :
         LET pos == Position(data.reminders, id) IN
         IF IsSome(pos)
         THEN /\ data' = [data EXCEPT !.reminders = RemoveAt(@, Unwrap(pos))]
              /\ outcome' = [action |-> "Remove", id |-> id, result |-> "Ok"]
         ELSE /\ outcome' = [action |-> "Remove", id |-> id, result |-> "Err"]
              /\ UNCHANGED data
    /\ UNCHANGED assigned
    /\ UNCHANGED <<playerVars, todoVars>>

\* The todo UI and the reminder commands are other entry points of the
\* repository: in a run of the player neither is started.
ToolsOff == InitTodo(<<>>) /\ InitReminders

\* ------------------------------------------------------- specification
\* The program at the top of run: the tracks are scanned, nothing is started.
\* The App fields hold what App::new gives them, the engine's locals what the
\* thread's first lines give them.
InitApp(k, s, t) ==
    /\ ntracks \in 0..MaxTracks
    /\ selected = 0
    /\ playing = None
    /\ status = "Stopped"
    /\ position = 0
    /\ total = None
    /\ volume = VolInit
    /\ cpc = "start"
    /\ keys = k
    /\ presses = [plus |-> 0, minus |-> 0]
    /\ cmdq = <<>>
    /\ evtq = <<>>
    /\ epc = "unspawned"
    /\ sink = None
    /\ evolume = VolInit
    /\ start_at = None
    /\ paused_acc = 0
    /\ mixer = 0
    /\ load = None
    /\ hist = <<>>
    /\ unanswered = <<>>
    /\ pending = [keysLeft |-> <<>>, ended |-> <<>>]
    /\ screens = s
    /\ term = None
    /\ compact_mode = FALSE
    /\ cached_layout = None
    /\ wave = [i \in 1..WaveLen |-> 0]
    /\ ticks = t

\* A terminal of 80 columns and 24 rows.
DefaultScreen == <<80, 24>>

\* A run of k key presses on a terminal that is not resized.
InitRun(k) == InitApp(k, {DefaultScreen}, 0) /\ ToolsOff

Init == InitRun(MaxKeys)

Next ==
    \/ CtlStart
    \/ CtlTrackStarted
    \/ CtlProgress
    \/ CtlTrackEnded
    \/ CtlError
    \/ CtlDraw
    \/ CtlTimeout
    \/ KeyQuit
    \/ KeyDown
    \/ KeyUp
    \/ KeyEnter
    \/ KeySpace
    \/ KeyNext
    \/ KeyPrev
    \/ KeyPlus
    \/ KeyMinus
    \/ KeyOther
    \/ EngineInit
    \/ EnginePlay
    \/ EngineToggle
    \/ EngineSetVolume
    \/ StreamDrain
    \/ EngineCheck

Spec == Init /\ [][Next]_vars

\* The engine thread and the main thread are both scheduled for as long as
\* the process runs: whatever step a thread is at is eventually taken. Key
\* presses and the end of a stream are up to the user and the file.
EngineNext ==
    EngineInit \/ EnginePlay \/ EngineToggle \/ EngineSetVolume \/ EngineCheck
CtlNext ==
    \/ CtlStart \/ CtlTrackStarted \/ CtlProgress \/ CtlTrackEnded \/ CtlError
    \/ CtlDraw \/ CtlTimeout
SpecLive == Spec /\ WF_vars(EngineNext) /\ WF_vars(CtlNext)

\* A run in which the user presses only Enter, Space and +: play, pause and
\* resume, set the volume.
NextToggle ==
    \/ CtlStart
    \/ CtlTrackStarted
    \/ CtlProgress
    \/ CtlTrackEnded
    \/ CtlError
    \/ CtlDraw
    \/ CtlTimeout
    \/ KeyEnter
    \/ KeySpace
    \/ KeyPlus
    \/ EngineInit
    \/ EnginePlay
    \/ EngineToggle
    \/ EngineSetVolume
    \/ StreamDrain
    \/ EngineCheck

SpecToggle == InitRun(MaxToggleKeys) /\ [][NextToggle]_vars

\* A run in which the user presses only Enter and Space: Plays that succeed
\* or fail, pauses, resumes and tracks that play to their end.
NextResume ==
    \/ CtlStart
    \/ CtlTrackStarted
    \/ CtlProgress
    \/ CtlTrackEnded
    \/ CtlError
    \/ CtlDraw
    \/ CtlTimeout
    \/ KeyEnter
    \/ KeySpace
    \/ EngineInit
    \/ EnginePlay
    \/ EngineToggle
    \/ StreamDrain
    \/ EngineCheck

SpecResume == InitRun(MaxResumeKeys) /\ [][NextResume]_vars

\* A run in which the user presses only + and -, each once the engine has
\* taken the SetVolume of the press before.
NextVolume ==
    \/ CtlStart
    \/ CtlDraw
    \/ CtlTimeout
    \/ (cmdq = <<>> /\ KeyPlus)
    \/ (cmdq = <<>> /\ KeyMinus)
    \/ EngineInit
    \/ EngineSetVolume
    \/ EngineCheck

SpecVolume == InitRun(MaxPresses) /\ [][NextVolume]_vars

\* The sizes a terminal is given in a run in which it is resized.
Sizes == (MinWidth..MaxWidth) \X (MinHeight..MaxHeight)

\* The smallest terminal the layout is specified for.
SmallScreen == <<MinWidth, MinHeight>>

\* A run in which the user presses no key and resizes the terminal between
\* the frames: to and fro between one size of Sizes, the default one and
\* the smallest one.
InitLayout ==
    /\ \E s \in Sizes : InitApp(0, {s, DefaultScreen, SmallScreen}, 0)
    /\ ToolsOff

NextLayout ==
    \/ CtlStart
    \/ CtlDraw
    \/ CtlTimeout

SpecLayout == InitLayout /\ [][NextLayout]_vars

\* A run in which the waveform is followed over its first MaxTicks loop
\* iterations: the user starts tracks and turns the volume down, and the
\* engine answers each Play (the events that change status); its periodic
\* check, whose events leave status and volume alone, is left out.
NextWave ==
    \/ CtlStart
    \/ CtlTrackStarted
    \/ CtlError
    \/ CtlDraw
    \/ CtlTimeout
    \/ KeyEnter
    \/ KeyMinus
    \/ EngineInit
    \/ EnginePlay
    \/ EngineSetVolume

InitWave == InitApp(MaxKeys, {DefaultScreen}, MaxTicks) /\ ToolsOff

SpecWave == InitWave /\ [][NextWave]_vars

\* In a run of the todo UI or of the reminder commands the player is not
\* started: its variables stay as App::new would leave them.
PlayerOff == InitApp(0, {DefaultScreen}, 0) /\ ntracks = 0

\* A run of the todo UI: the keys of handle_key_event in both input modes.
NextTodo ==
    \/ TodoQuit
    \/ MoveNext
    \/ MovePrevious
    \/ ToggleCurrentTodo
    \/ StartAddingTodo
    \/ DeleteCurrentTodo
    \/ PushChar
    \/ PopChar
    \/ CancelAddingTodo
    \/ AddTodo

InitTodoRun ==
    /\ PlayerOff
    /\ InitReminders
    /\ \E file \in TodoFiles : InitTodo(file)

SpecTodo == InitTodoRun /\ [][NextTodo]_vars

\* A history of reminders.json: one reminder command after the other, each
\* a process that loads the file, acts and saves.
NextReminder ==
    \/ ReminderAdd
    \/ ReminderComplete
    \/ ReminderRemove

InitReminderRun ==
    /\ PlayerOff
    /\ InitTodo(<<>>)
    /\ InitReminders

SpecReminder == InitReminderRun /\ [][NextReminder]_vars

\* ================================================================ claims
Last(h) == h[Len(h)]
TheLoad == Unwrap(load)
Types(h) == {h[j].type : j \in 1..Len(h)}

\* C1: a Play whose file opens and decodes is answered by exactly one
\* TrackStarted, which carries the index of that command and the duration of
\* the stream, and which comes before every Progress and TrackEnded of that
\* load: the history of the load starts with it and holds no other response.
C1_StartedOnceAndFirst ==
    (IsSome(load) /\ TheLoad.res = "ok") =>
        /\ hist # <<>>
        /\ hist[1] = TrackStarted(TheLoad.cmd.index, TheLoad.duration)
        /\ \A j \in 2..Len(hist) : hist[j].type \in {"Progress", "TrackEnded"}

\* C1 witness: track 1 was played to its end: TrackStarted, Progress, TrackEnded.
C1_Witness ==
    /\ IsSome(load) /\ TheLoad.res = "ok" /\ TheLoad.cmd.index = 1
    /\ Len(hist) = 3
    /\ hist[1].type = "TrackStarted" /\ hist[1].duration = Some(240)
    /\ hist[2].type = "Progress"
    /\ hist[3].type = "TrackEnded"

\* C2: a Play whose file does not open or decode is answered by exactly one
\* Error and by nothing else, and the engine is Idle (no stream loaded, the
\* device plays nothing) for as long as that attempt is the latest one, also
\* when a stream was loaded when the command arrived.
C2_FailedPlayIsOneError ==
    (IsSome(load) /\ TheLoad.res # "ok") =>
        /\ hist = <<ErrorEvent(TheLoad.res, TheLoad.cmd.path)>>
        /\ sink = None
        /\ mixer = 0

\* C2 witness: a failed Play that replaced a loaded stream.
C2_Witness ==
    /\ IsSome(load) /\ TheLoad.res = "decode_failed" /\ TheLoad.replaced
    /\ hist = <<Error(<<"unsupported format", PathOf(1)>>)>>

\* The controller takes an event of the given type off the event channel.
Handles(type) ==
    /\ cpc = "drain"
    /\ evtq # <<>>
    /\ Head(evtq).type = type
    /\ evtq' = Tail(evtq)

\* Every Play in the command channel is one the ghost queue holds, in order.
PlaysOf(q) == SelectSeq(q, LAMBDA c : c.type = "Play")

\* C3 (order): the Play the engine takes is the oldest one the controller has
\* sent and not yet had answered, and its one response names that Play: a
\* TrackStarted with its index or an Error with its path.
C3_AnswersOldestPlay ==
    /\ Len(PlaysOf(cmdq)) = Len(unanswered)
    /\ \A j \in 1..Len(unanswered) : PlaysOf(cmdq)[j].index = unanswered[j]
    /\ IsSome(load) =>
         /\ hist # <<>>
         /\ \/ hist[1].type = "TrackStarted" /\ hist[1].index = TheLoad.sentIndex
            \/ hist[1].type = "Error" /\ hist[1].message[2] = PathOf(TheLoad.sentIndex)
         /\ \A j \in 2..Len(hist) : hist[j].type \notin {"TrackStarted", "Error"}

\* C3: every Play command sent by the controller is eventually answered by
\* exactly one response event (TrackStarted with its index, or Error), the
\* responses coming in the order of the commands. "Eventually" is meant for
\* as long as the process runs. A Play leaves `unanswered` only by being
\* answered, so the Plays pending now are all answered once it is empty.
C3_EveryPlayAnswered ==
    /\ []C3_AnswersOldestPlay
    /\ (unanswered # <<>>) ~> (unanswered = <<>> \/ ~ProcessAlive)

\* C3, with the engine thread running: the same, unless the engine thread
\* ended at its first line for want of an output device.
C3_AnsweredWhileEngineRuns ==
    /\ []C3_AnswersOldestPlay
    /\ (unanswered # <<>>) ~> (unanswered = <<>> \/ ~ProcessAlive \/ epc = "nodevice")

\* C4: playing is None exactly when status is Stopped.
C4_PlayingNoneIffStopped == (playing = None) <=> (status = "Stopped")

\* C5: TrackEnded with playing = Some(i), i the last index: no Play is sent
\* and selected is unchanged.
C5_NoActionAtLastTrack ==
    [][(Handles("TrackEnded") /\ IsSome(playing) /\ Unwrap(playing) = ntracks - 1)
         => (cmdq' = cmdq /\ selected' = selected)]_vars

\* C6: TrackEnded with playing = Some(i), i not the last index: selected
\* becomes i+1 and exactly one command is sent, Play{i+1, path of track i+1}.
C6_AutoAdvance ==
    [][(Handles("TrackEnded") /\ IsSome(playing) /\ Unwrap(playing) + 1 < ntracks)
         => /\ selected' = Unwrap(playing) + 1
            /\ cmdq' = Append(cmdq, Play(Unwrap(playing) + 1,
                                         PathOf(Unwrap(playing) + 1)))]_vars

\* C6 witness: after a single key press (Enter on track 0) track 0 has ended
\* and the controller has advanced: selected = 1 and Play{1} is in the channel.
C6_Witness ==
    /\ keys = MaxKeys - 1
    /\ playing = Some(0)
    /\ selected = 1
    /\ cmdq = <<Play(1, PathOf(1))>>
    /\ Last(hist).type = "TrackEnded"

\* C7: when the output device cannot be initialized, start returns an error
\* and the application aborts before it enters the control loop.
C7_NoDeviceAborts == (epc = "nodevice") => (cpc = "aborted")

\* C8: after a failing Play the engine loop is still running, and a Play of a
\* decodable file handled after an Error is answered by TrackStarted.
C8_ResponsiveAfterError ==
    /\ (IsSome(load) /\ (TheLoad.res # "ok" \/ TheLoad.afterError)) => epc = "run"
    /\ (IsSome(load) /\ TheLoad.afterError /\ TheLoad.res = "ok") =>
           /\ hist # <<>>
           /\ hist[1] = TrackStarted(TheLoad.cmd.index, TheLoad.duration)

\* C8 witness: a TrackStarted for a Play handled after an Error.
C8_Witness ==
    /\ IsSome(load) /\ TheLoad.afterError /\ TheLoad.res = "ok"
    /\ hist[1].type = "TrackStarted"
    /\ IsSome(sink)

C10_EndedOnceThenIdle ==
    /\ \A j \in 1..Len(hist) : hist[j].type = "TrackEnded" => j = Len(hist)
    /\ (hist # <<>> /\ Last(hist).type = "TrackEnded") => (sink = None /\ start_at = None)
    /\ (IsSome(load) /\ TheLoad.drained /\ sink = None) => Last(hist).type = "TrackEnded"
    /\ sink = None => (hist = <<>> \/ Last(hist).type \in {"TrackEnded", "Error"})
    /\ load = None => hist = <<>>

\* C10 witness: a stream has drained, TrackEnded is emitted, the engine is Idle.
C10_Witness ==
    /\ IsSome(load) /\ TheLoad.drained
    /\ sink = None
    /\ Len(hist) >= 2 /\ Last(hist).type = "TrackEnded"

\* The engine takes a command of the given type off the command channel.
Takes(type) ==
    /\ epc = "run"
    /\ cmdq # <<>>
    /\ Head(cmdq).type = type
    /\ cmdq' = Tail(cmdq)

Abs(x) == IF x < 0 THEN 0 - x ELSE x

\* C11: a TogglePlayPause taken while the engine is Idle emits no event and
\* changes nothing in the engine (stream, stored volume, start_at, paused_acc);
\* taken while a stream is loaded it emits no event, leaves the engine thread
\* running and flips the stream from playing to paused and from paused to
\* playing, so that a second toggle gives back the sub-state before the first.
C11_ToggleIdleNoOpElseFlip ==
    [][Takes("TogglePlayPause") =>
         /\ evtq' = evtq
         /\ epc' = epc
         /\ evolume' = evolume
         /\ IF sink = None
            THEN sink' = None /\ start_at' = start_at /\ paused_acc' = paused_acc
            ELSE /\ IsSome(sink')
                 /\ Unwrap(sink').paused = ~Unwrap(sink).paused
                 /\ Unwrap(sink').empty = Unwrap(sink).empty
                 /\ Unwrap(sink').vol = Unwrap(sink).vol]_vars

\* C11 witness: a loaded stream was paused and toggled again, and is playing.
C11_Witness ==
    /\ IsSome(sink)
    /\ Unwrap(sink).resumed
    /\ ~Unwrap(sink).paused
    /\ ~Unwrap(sink).empty
    /\ cmdq = <<>>

\* C12: the Progress the engine emits for a stream that was paused and resumed
\* (and is playing) carries the time the stream has spent playing since its
\* TrackStarted, to within one period of the engine loop: the time spent paused
\* is not in it.
C12_ProgressExcludesPausedTime ==
    [][(/\ IsSome(sink)
        /\ Unwrap(sink).resumed
        /\ ~Unwrap(sink).paused
        /\ Len(evtq') = Len(evtq) + 1
        /\ Last(evtq').type = "Progress")
         => Abs(Last(evtq').position - Unwrap(sink).played) <= 1]_vars

\* C13: with a non-empty track list, selected is a valid index into it.
C13_SelectedValid == (ntracks > 0) => (selected \in 0..(ntracks - 1))

\* C13 witness: the selection has moved to the last of two tracks and the user
\* has pressed another key after that.
C13_Witness ==
    /\ ntracks = 2
    /\ selected = 1
    /\ keys = MaxKeys - 2
    /\ cmdq = <<>>
    /\ cpc = "drain"

\* C14: Up with selected = 0 leaves selected at 0, Down with selected at the
\* last index leaves it there; Up moves by at most one towards 0 and Down by at
\* most one towards the end (no wrap), and neither sends a command.
C14_UpDownClamped ==
    [][/\ (KeyUp /\ selected = 0) => selected' = 0
       /\ (KeyDown /\ selected = ntracks - 1) => selected' = selected
       /\ KeyUp => (selected' \in {selected, selected - 1} /\ cmdq' = cmdq)
       /\ KeyDown => (selected' \in {selected, selected + 1} /\ cmdq' = cmdq)]_vars

\* C14 witness: two key presses, none of which sent a command, have left the
\* selection on the first of two tracks, and the user has quit neither time.
C14_Witness ==
    /\ ntracks = 2
    /\ selected = 0
    /\ keys = MaxKeys - 2
    /\ cmdq = <<>>
    /\ epc = "run"
    /\ cpc = "drain"
    /\ volume = VolInit

\* C15: no key press makes the controller panic.
C15_NoKeyCrashes == cpc # "panicked"

\* C16: with a non-empty track list, Enter sends exactly one command, the Play
\* of the selected track; ] and [ move selected to the next / previous index,
\* clamped to the list, and send exactly one command, the Play of the new
\* selected track. Every Play put into the command channel carries a valid
\* index and the path of the track at that index.
C16_PlayKeysSendOnePlay ==
    [][/\ (KeyEnter /\ ntracks > 0) =>
             /\ selected' = selected
             /\ cmdq' = Append(cmdq, Play(selected, PathOf(selected)))
       /\ (KeyNext /\ ntracks > 0) =>
             /\ selected' = (IF selected = ntracks - 1 THEN selected ELSE selected + 1)
             /\ cmdq' = Append(cmdq, Play(selected', PathOf(selected')))
       /\ (KeyPrev /\ ntracks > 0) =>
             /\ selected' = (IF selected = 0 THEN 0 ELSE selected - 1)
             /\ cmdq' = Append(cmdq, Play(selected', PathOf(selected')))
       /\ (Len(cmdq') = Len(cmdq) + 1 /\ Last(cmdq').type = "Play") =>
             /\ Last(cmdq').index \in 0..(ntracks - 1)
             /\ Last(cmdq').path = PathOf(Last(cmdq').index)]_vars

\* C16 witness: one key press, ], on the first of two tracks: selected is 1 and
\* the one command in the channel is Play{1}.
C16_Witness ==
    /\ ntracks = 2
    /\ keys = MaxKeys - 1
    /\ selected = 1
    /\ playing = None
    /\ cmdq = <<Play(1, PathOf(1))>>

\* The volume is within [0.0, 2.0].
InRange(v) == VolMin <= v /\ v <= VolMax

\* C17: the controller's volume and the value of every SetVolume in the
\* command channel are within [0.0, 2.0]; a + press makes the volume the f32
\* sum volume + 0.05, or 2.0 if that sum is above 2.0, a - press makes it the
\* f32 difference volume - 0.05, or 0.0 if that is below 0.0; and each press
\* sends exactly one command, SetVolume of the new volume.
C17_VolumeStepsInRange ==
    /\ [](/\ InRange(volume)
          /\ \A j \in 1..Len(cmdq) : cmdq[j].type = "SetVolume" => InRange(cmdq[j].v))
    /\ [][/\ KeyPlus =>
                /\ volume' = (IF F32Add(volume, VolStep) > VolMax
                              THEN VolMax ELSE F32Add(volume, VolStep))
                /\ cmdq' = Append(cmdq, SetVolume(volume'))
          /\ KeyMinus =>
                /\ volume' = (IF F32Sub(volume, VolStep) < VolMin
                              THEN VolMin ELSE F32Sub(volume, VolStep))
                /\ cmdq' = Append(cmdq, SetVolume(volume'))]_vars

\* C17 witness: the 21st + in a row has hit the ceiling, and its SetVolume(2.0)
\* is in the channel.
C17_Witness ==
    /\ presses = [plus |-> 21, minus |-> 0]
    /\ volume = VolMax
    /\ cmdq = <<SetVolume(VolMax)>>

\* Ten presses of + and of nothing else; ten presses of - and of nothing else.
TenPlus == presses = [plus |-> 10, minus |-> 0]
TenMinus == presses = [plus |-> 0, minus |-> 10]

\* C18 (as claimed): from 1.0, ten + give the volume 2.0 (clamped), ten - give
\* 0.5, and the volume is never above 2.0 and never negative.
C18_TenPressesClaimed ==
    /\ InRange(volume)
    /\ TenPlus => volume = VolMax
    /\ TenMinus => volume = VolInit \div 2

\* C18 (amended): from 1.0, ten + give 1.5 and ten - give 0.5, each to within
\* 2^-20 (the f32 rounding of the ten steps); the volume is never above 2.0 and
\* never negative.
C18_TenPresses ==
    /\ InRange(volume)
    /\ TenPlus => Abs(volume - (VolInit + VolInit \div 2)) < 256
    /\ TenMinus => Abs(volume - VolInit \div 2) < 256

\* C18 witness: ten + from 1.0 and nothing else: the volume is below 2.0.
C18_Witness ==
    /\ TenPlus
    /\ volume < VolMax
    /\ volume > VolInit

\* The f32 values the program goes through, as IEEE 754 single precision
\* gives them: 1.0 + 0.05 is 1.0499999523, ten + give 1.4999995232, twenty
\* 1.9999990463; ten - give 0.4999998808, nineteen 0.0499998443, twenty 0.0;
\* 1.0 + 0.05 - 0.05 is 0.9999999404 and 1.0 - 0.05 + 0.05 is 1.0.
F32Values ==
    /\ presses = [plus |-> 1, minus |-> 0] => volume = 281857216
    /\ TenPlus => volume = 402653056
    /\ presses = [plus |-> 20, minus |-> 0] => volume = 536870656
    /\ TenMinus => volume = 134217696
    /\ presses = [plus |-> 0, minus |-> 19] => volume = 13421731
    /\ presses = [plus |-> 0, minus |-> 20] => volume = 0
    /\ presses = [plus |-> 1, minus |-> 1] => volume \in {268435440, 268435456}

\* The values of the SetVolume commands in the channel, oldest first.
VolumesOf(q) == SelectSeq(q, LAMBDA c : c.type = "SetVolume")

\* C19: the engine's stored volume is that of the most recent SetVolume it has
\* taken, 1.0 before any (it is the controller's volume once no SetVolume is
\* on its way); a loaded stream's gain is the stored volume, whether the stream
\* was loaded before or after the SetVolume; and taking a SetVolume sends no
\* event and leaves the pause state, start_at and paused_acc as they are.
C19_GainIsStoredVolume ==
    /\ [](/\ IsSome(sink) => Unwrap(sink).vol = evolume
          /\ epc \in {"unspawned", "init"} => evolume = VolInit
          /\ (epc = "run" /\ VolumesOf(cmdq) = <<>>) => evolume = volume)
    /\ [][Takes("SetVolume") =>
            /\ evolume' = Head(cmdq).v
            /\ evtq' = evtq
            /\ start_at' = start_at
            /\ paused_acc' = paused_acc
            /\ epc' = epc
            /\ IsSome(sink') = IsSome(sink)
            /\ IsSome(sink) => /\ Unwrap(sink').paused = Unwrap(sink).paused
                               /\ Unwrap(sink').empty = Unwrap(sink).empty
                               /\ Unwrap(sink').vol = Head(cmdq).v]_vars

\* C19 witness: a paused stream has taken a new gain, and a stream loaded
\* after a SetVolume carries it.
C19_Witness ==
    /\ IsSome(sink)
    /\ Unwrap(sink).paused
    /\ Unwrap(sink).vol = VolumeUp(VolInit)
    /\ evolume = VolumeUp(VolInit)
    /\ cmdq = <<>>

\* C20: the controller never waits for the engine. Whatever the engine thread
\* is doing (running, stalled, ended) and whatever is in the two channels, the
\* event drain can take its next step, and at the poll every key of a user who
\* presses one is handled: q ends the loop, Up/Down set selected, + and - set
\* the volume and send their command.
C20_NeverWaitsForEngine ==
    /\ cpc = "drain" =>
          ENABLED (CtlTrackStarted \/ CtlProgress \/ CtlTrackEnded \/ CtlError \/ CtlDraw)
    /\ (cpc = "poll" /\ keys > 0) =>
          /\ ENABLED KeyQuit
          /\ ENABLED KeyDown
          /\ ENABLED KeyUp
          /\ ENABLED KeyEnter
          /\ ENABLED KeySpace
          /\ ENABLED KeyNext
          /\ ENABLED KeyPrev
          /\ ENABLED KeyPlus
          /\ ENABLED KeyMinus
          /\ ENABLED KeyOther

\* C20 witness: the engine thread has ended, a SetVolume sent to it lies in
\* the channel, and q has ended the control loop.
C20_Witness ==
    /\ epc = "nodevice"
    /\ cmdq = <<SetVolume(VolumeUp(VolInit))>>
    /\ volume = VolumeUp(VolInit)
    /\ cpc = "quit"

\* --------------------------------------------------------------- layout
\* The cached layout and the size it was computed for.
Drawn == IsSome(cached_layout)
W == Unwrap(cached_layout)[1]
H == Unwrap(cached_layout)[2]
TheLayout == Unwrap(cached_layout)[3]
Bottom(r) == r.y + r.height

\* C21: on every terminal of at least 20 columns and 10 rows the four bands
\* (now playing, middle, playback control, status bar) start at row 0, follow
\* one another from top to bottom without overlapping, and their heights sum
\* to no more than the height of the terminal.
C21_BandsOrderedAndFit ==
    Drawn =>
        LET l == TheLayout IN
        /\ l.now_playing.y = 0
        /\ Bottom(l.now_playing) <= l.track_list.y
        /\ Bottom(l.track_list) <= l.playback_control.y
        /\ Bottom(l.playback_control) <= l.status_bar.y
        /\ Bottom(l.status_bar) <= H
        /\ l.now_playing.height + l.track_list.height
             + l.playback_control.height + l.status_bar.height <= H

\* C21 witness: a layout was computed for a terminal of 10 rows, in which the
\* bands' constraints do not fit.
C21_Witness == Drawn /\ H = MinHeight /\ W = MinWidth

\* Ratios of the two panels of the middle band, in percent of their joint width.
Joint(l) == l.track_list.width + Unwrap(l.visualization).width
PercentBetween(part, whole, lo, hi) == lo * whole <= 100 * part /\ 100 * part <= hi * whole

\* C23: a visualization region exists exactly when the terminal has at least
\* 80 columns. When it exists it stands to the right of the track list in the
\* middle band (same y, same height, no overlap), the track list has 50 to
\* 60 percent and the visualization 40 to 50 percent of their joint width;
\* below 80 columns the track list is the whole middle band.
C23_VisualizationFromEighty ==
    Drawn =>
        LET l == TheLayout IN
        /\ IsSome(l.visualization) <=> W >= 80
        /\ IsSome(l.visualization) =>
              LET v == Unwrap(l.visualization) IN
              /\ l.track_list.y = v.y
              /\ l.track_list.height = v.height
              /\ l.track_list.x < v.x
              /\ l.track_list.x + l.track_list.width <= v.x
              /\ PercentBetween(l.track_list.width, Joint(l), 50, 60)
              /\ PercentBetween(v.width, Joint(l), 40, 50)
        /\ ~IsSome(l.visualization) =>
              /\ l.track_list.x = 0
              /\ l.track_list.width = W
              /\ l.track_list.y = Bottom(l.now_playing)
              /\ Bottom(l.track_list) = l.playback_control.y

\* C23 witness: a layout for exactly 80 columns, with both panels.
C23_Witness == Drawn /\ W = 80 /\ IsSome(TheLayout.visualization)

\* C23 witness of the compact case: 79 columns, no visualization.
C23_WitnessCompact == Drawn /\ W = 79 /\ TheLayout.visualization = None

\* C24: after any sequence of frames on a terminal that changes its size, the
\* cached size is the size of the latest get_layout call and the cached layout
\* is one calculate_layout gives for that size; a call with the cached size
\* leaves the cache as it is.
C24_CacheIsFreshLayout ==
    /\ [](Drawn => /\ term = Some(<<W, H>>)
                   /\ TheLayout \in CalculateLayout(W, H))
    /\ [][Drawn /\ term' = Some(<<W, H>>) => cached_layout' = cached_layout]_vars

\* C24 witness: a frame was drawn at the default width and another height.
C24_Witness ==
    /\ Drawn
    /\ cpc = "poll"
    /\ W = DefaultScreen[1]
    /\ H # DefaultScreen[2]
    /\ term = Some(<<W, H>>)

\* The heights of the four bands, from the top.
BandHeights(l) ==
    <<l.now_playing.height, l.track_list.height, l.playback_control.height,
      l.status_bar.height>>

\* C29 as stated: from 20 rows on the now-playing and playback-control bands
\* have 5 rows each, below 20 rows 3 and 4 rows, the status bar has 1 row, and
\* the middle band has the remaining rows and never fewer than 5, for every
\* height from 10 on.
C29_BandHeightsClaimed ==
    Drawn /\ H >= 10 =>
        LET b == BandHeights(TheLayout) IN
        /\ b[1] = (IF H >= 20 THEN 5 ELSE 3)
        /\ b[3] = (IF H >= 20 THEN 5 ELSE 4)
        /\ b[4] = 1
        /\ b[2] = H - b[1] - b[3] - b[4]
        /\ b[2] >= 5

\* C29, amended: the same for every height from 13 on, the smallest height
\* in which bands of 3, 5, 4 and 1 rows fit.
C29_BandHeights ==
    Drawn /\ H >= 13 =>
        LET b == BandHeights(TheLayout) IN
        /\ b[1] = (IF H >= 20 THEN 5 ELSE 3)
        /\ b[3] = (IF H >= 20 THEN 5 ELSE 4)
        /\ b[4] = 1
        /\ b[2] = H - b[1] - b[3] - b[4]
        /\ b[2] >= 5

\* C29 witness: a layout of 13 rows, the middle band at its minimum.
C29_Witness == Drawn /\ H = 13 /\ TheLayout.track_list.height = 5

\* ------------------------------------------------------- playback mirror
\* The controller's mirror of the engine's playback.
Mirror == <<status, playing, position, total>>

\* C25: no key press (and no tick without a key) changes status, playing,
\* position or total: they change only in a step that takes an event from the
\* event channel while the controller is draining it. Space sends exactly one
\* TogglePlayPause; Enter, ] and [ leave status as it is.
C25_KeysLeaveMirror ==
    [][/\ cpc = "poll" => Mirror' = Mirror
       /\ Mirror' # Mirror => cpc = "drain" /\ evtq # <<>> /\ evtq' = Tail(evtq)
       /\ KeySpace => cmdq' = Append(cmdq, [type |-> "TogglePlayPause"])
       /\ (KeyEnter \/ KeyNext \/ KeyPrev) =>
             /\ status' = status
             /\ Len(cmdq') <= Len(cmdq) + 1
             /\ \A j \in (Len(cmdq) + 1)..Len(cmdq') : cmdq'[j].type = "Play"]_vars

\* C25 witness: Enter was pressed and the mirror still shows Stopped, the
\* Play being on its way to the engine.
C25_Witness ==
    /\ keys = MaxKeys - 1
    /\ status = "Stopped"
    /\ playing = None
    /\ cmdq # <<>>
    /\ Last(cmdq).type = "Play"

\* C25 witness for Space: a track is playing and Space was pressed.
C25_WitnessSpace ==
    /\ status = "Playing"
    /\ cmdq # <<>>
    /\ Last(cmdq).type = "TogglePlayPause"

\* What folding an event leaves alone besides the mirror.
Rest == <<selected, volume, cmdq>>

\* C26: folding TrackStarted{index, duration} sets playing to Some(index),
\* with the index of the event, status to Playing, position to 0 and total to
\* duration; folding Progress{p} sets position to p and nothing else of the
\* mirror; folding Error sets status to Stopped and nothing else of the mirror;
\* none of the three changes selected or volume or sends a command.
C26_FoldSetsListedFields ==
    [][/\ Handles("TrackStarted") =>
             /\ playing' = Some(Head(evtq).index)
             /\ status' = "Playing"
             /\ position' = 0
             /\ total' = Head(evtq).duration
             /\ Rest' = Rest
       /\ Handles("Progress") =>
             /\ position' = Head(evtq).position
             /\ <<status, playing, total>>' = <<status, playing, total>>
             /\ Rest' = Rest
       /\ Handles("Error") =>
             /\ status' = "Stopped"
             /\ <<playing, position, total>>' = <<playing, position, total>>
             /\ Rest' = Rest]_vars

\* C26 witness: the mirror shows track 0 playing, as the TrackStarted said,
\* while the controller's last request, still in the channel, is for track 1.
C26_Witness ==
    /\ playing = Some(0)
    /\ status = "Playing"
    /\ selected = 1
    /\ cmdq # <<>>
    /\ Last(cmdq) = Play(1, PathOf(1))

\* ---------------------------------------------------------------- engine
\* The engine emits e in this step.
Emits(type) == Len(evtq') = Len(evtq) + 1 /\ Last(evtq').type = type

\* C28: every Progress carries the time since the track started less the time
\* it has spent paused, that is the time the stream has played (to within one
\* period of the engine loop); so the Progress events of a paused stream do
\* not go beyond the position at which it was paused.
C28_ProgressIsPlayedTime ==
    [][(IsSome(sink) /\ Emits("Progress")) =>
          /\ Abs(Last(evtq').position - Unwrap(sink).played) <= 1
          /\ Unwrap(sink).paused => Last(evtq').position <= paused_acc + 1]_vars

\* C27: the engine takes the commands in the order they were sent (it only
\* ever takes the oldest command of the channel, and the controller only adds
\* at the end), and the periodic check of an iteration comes after every
\* pending command was taken: a Progress or a TrackEnded is emitted only with
\* the command channel empty, never between two commands of one iteration.
C27_CommandsInOrderBeforeCheck ==
    [][/\ cmdq' # cmdq =>
             \/ cmdq # <<>> /\ cmdq' = Tail(cmdq)
             \/ Len(cmdq') = Len(cmdq) + 1 /\ SubSeq(cmdq', 1, Len(cmdq)) = cmdq
       /\ (\E type \in {"Play", "TogglePlayPause", "SetVolume"} : Takes(type))
             => ~Emits("Progress") /\ ~Emits("TrackEnded")
       /\ (Emits("Progress") \/ Emits("TrackEnded")) => cmdq = <<>> /\ cmdq' = <<>>]_vars

\* C27 witness: a Play and a SetVolume were both taken, and the check that
\* followed them has emitted a Progress for the track.
C27_Witness ==
    /\ IsSome(load)
    /\ evolume # VolInit
    /\ hist # <<>>
    /\ Last(hist).type = "Progress"
    /\ cmdq = <<>>

\* -------------------------------------------------------------- waveform
\* C30: the waveform history always holds exactly 80 samples, each from 0 to
\* 100; a loop iteration that completes drops the oldest sample and appends
\* one, nothing else changes the history, and the appended sample is 0 when
\* status is not Playing.
C30_WaveIsRollingWindow ==
    /\ [](Len(wave) = 80 /\ \A i \in 1..Len(wave) : wave[i] \in 0..100)
    /\ [][/\ wave' # wave => ticks' = ticks - 1
          /\ ticks' = ticks - 1 =>
                /\ cpc = "poll" /\ cpc' = "drain"
                /\ SubSeq(wave', 1, Len(wave') - 1) = Tail(wave)
                /\ status' # "Playing" => Last(wave') = 0]_vars

\* C30 witness: a sample taken while a track plays at a volume below 1.0 has
\* come into the window, all the older samples being 0.
C30_Witness ==
    /\ status = "Playing"
    /\ volume < VolInit
    /\ Last(wave) \in 1..99
    /\ wave[WaveLen - 1] = 0

\* C31: a Play the user asked for is not overridden by the auto-advance.
\* With every file decoding and no key pressed since the request, the engine
\* never replaces the stream a key asked for while another track was the
\* latest one, before that stream has drained, by the track of an
\* auto-advance Play.
C31_UserPlayKept ==
    [][(/\ Takes("Play")
        /\ IsSome(load)
        /\ IsSome(sink)
        /\ TheLoad.keysLeft = keys
        /\ TheLoad.before \notin {-1, TheLoad.cmd.index}
        /\ TheLoad.res = "ok"
        /\ ~TheLoad.afterError
        /\ ~TheLoad.drained
        /\ Unwrap(load').res = "ok"
        /\ Unwrap(load').keysLeft = -1)
       => Unwrap(load').cmd.index = TheLoad.cmd.index]_vars

\* C32: whenever the controller handles a TrackEnded, its playing field holds
\* the index of the track whose stream drained, the track of the latest
\* TrackStarted the engine emitted before that TrackEnded.
C32_EndedTrackIsPlaying ==
    [][Handles("TrackEnded") => playing = Some(Head(pending.ended))]_vars

\* C32: a TrackEnded is handled while a Play sent after the drained track was
\* started is still waiting or was already taken by the engine.
C32_Witness ==
    /\ cpc = "drain"
    /\ evtq # <<>>
    /\ Head(evtq).type = "TrackEnded"
    /\ playing = Some(Head(pending.ended))
    /\ IsSome(load)
    /\ TheLoad.cmd.index # Head(pending.ended)

\* Both channels are empty, the engine is between two turns of its loop and
\* the controller has finished draining the events.
Quiescent ==
    /\ cmdq = <<>>
    /\ evtq = <<>>
    /\ epc = "run"
    /\ cpc = "poll"

\* C33: at quiescence the controller's status is Playing exactly when the
\* engine has a stream loaded (playing or paused), and then the controller's
\* playing index is the index of that stream.
C33_MirrorAtQuiescence ==
    Quiescent =>
        /\ status = "Playing" <=> IsSome(sink)
        /\ IsSome(sink) => playing = Some(TheLoad.cmd.index)

\* C33: quiescence with a paused stream loaded.
C33_Witness ==
    /\ Quiescent
    /\ IsSome(sink)
    /\ Unwrap(sink).paused
    /\ status = "Playing"

\* C33: quiescence with nothing loaded after a track was played.
C33_WitnessIdle ==
    /\ Quiescent
    /\ ~IsSome(sink)
    /\ IsSome(load)
    /\ status = "Stopped"

\* C34: the controller's status never holds Paused: it is Stopped or Playing
\* in every reachable state, also while the loaded stream is paused.
C34_StatusNeverPaused == status \in {"Stopped", "Playing"}

\* C34: the engine has paused the loaded stream after a TogglePlayPause and
\* the controller has handled every event.
C34_Witness ==
    /\ IsSome(sink)
    /\ Unwrap(sink).paused
    /\ evtq = <<>>
    /\ cmdq = <<>>
    /\ status = "Playing"

\* C35: within one load the positions of successive Progress events never
\* decrease. The controller handles the events in the order they were sent
\* and its position is 0 from the TrackStarted of the load and then the
\* latest Progress, so no Progress it handles is below its position.
C35_ProgressNeverDecreases ==
    [][Handles("Progress") => Head(evtq).position >= position]_vars

\* C38: the engine's elapsed-time arithmetic never underflows. The engine
\* thread is never ended by a panic, and at every TogglePlayPause that
\* resumes a paused stream the time elapsed since start_at is at least
\* paused_acc and the thread goes on.
C38_ResumeNeverUnderflows ==
    /\ [](epc # "panicked")
    /\ [][(/\ Takes("TogglePlayPause")
            /\ IsSome(sink)
            /\ Unwrap(sink).paused
            /\ IsSome(start_at))
           => /\ Elapsed(Unwrap(start_at)) >= paused_acc
              /\ epc' = "run"]_vars

\* C38: a stream paused after some play, when an earlier Play had failed,
\* is about to be resumed.
C38_Witness ==
    /\ epc = "run"
    /\ cmdq # <<>>
    /\ Head(cmdq).type = "TogglePlayPause"
    /\ IsSome(sink)
    /\ Unwrap(sink).paused
    /\ IsSome(start_at)
    /\ paused_acc > 0
    /\ TheLoad.afterError

\* ----------------------------------------------------------------- todo UI
\* C36: in the todo UI the list selection is None or a valid index into the
\* todo list, and it is None whenever the list is empty.
C36_SelectionValid ==
    /\ IsSome(list_state) => Unwrap(list_state) < Len(todos)
    /\ todos = <<>> => list_state = None

\* --------------------------------------------------------------- reminders
StoredIds == {data.reminders[j].id : j \in 1..Len(data.reminders)}
Distinct(q) == \A i, j \in 1..Len(q) : i # j => q[i] # q[j]

\* C37: reminder ids are unique and never reused. No two stored reminders
\* share an id and no id was given twice; next_id changes only when a
\* reminder is added, which gets the old next_id as its id while next_id
\* grows by one; a Complete or a Remove of an id that is not stored returns
\* an error and stores nothing.
C37_IdsUniqueNeverReused ==
    /\ [](/\ Distinct([j \in 1..Len(data.reminders) |-> data.reminders[j].id])
          /\ Distinct(assigned)
          /\ StoredIds \subseteq {assigned[j] : j \in 1..Len(assigned)})
    /\ [][/\ data'.next_id # data.next_id =>
               /\ outcome'.action = "Add"
               /\ data'.reminders = Append(data.reminders, Reminder(data.next_id))
               /\ data'.next_id = data.next_id + 1
          /\ Len(data'.reminders) > Len(data.reminders) =>
               /\ data'.next_id = data.next_id + 1
               /\ Last(data'.reminders).id = data.next_id
          /\ (outcome'.action \in {"Complete", "Remove"}
                /\ outcome'.id \notin StoredIds) =>
               /\ outcome'.result = "Err"
               /\ data' = data]_vars

\* C37: a reminder was added after an older one was removed, and a command
\* that named an id not stored has returned its error.
C37_Witness ==
    /\ Len(assigned) >= 3
    /\ Len(data.reminders) < Len(assigned)
    /\ data.reminders # <<>>
    /\ Last(data.reminders).id = Last(assigned)
    /\ outcome.action \in {"Complete", "Remove"}
    /\ outcome.result = "Err"

====
